---- MODULE Spec2Model ----
(***************************************************************************)
(* Model of the RedFruitCOT scripts.                                       *)
(*                                                                         *)
(*   redfruit.py  main(num_iterations): seed / feedback / grade / sort /   *)
(*                refine loop over three candidates, then the summary file *)
(*   redfruit.py  grade_response: the regular expression that extracts the *)
(*                grade from the grading text                              *)
(*   htmlize.py   generate_html: reads response.txt and splits it on the   *)
(*                marker "SUMMARY OF PROCESS"                              *)
(*                                                                         *)
(* The two scripts are separate processes that share response.txt.         *)
(*                                                                         *)
(* A Python str is a sequence of one-character strings, over the           *)
(* characters U+0000 to U+00FF that a string of this language can hold.    *)
(* A Python value that may be None, or a dict key that may be missing, is  *)
(* a tagged record (None, Absent, PyInt(n), PyStr(s)).                     *)
(***************************************************************************)
EXTENDS Integers, Sequences, FiniteSets, TLC

VARIABLES
    pc,              \* position of main / of the script under analysis
    num_iterations,  \* argument of main
    call_seconds,    \* seconds a converse call takes in this run
    iteration,       \* loop variable of "for iteration in range(num_iterations)"
    i,               \* loop variable of "for i, r in enumerate(responses)" (1-based)
    responses,       \* the list of candidate dicts
    feedback,        \* local variable feedback of main (result of get_feedback)
    grading_text,    \* local variable grading_text of grade_response
    best_response,   \* local variable best_response of main
    refined_text,    \* local variable refined_text of main
    file,            \* response.txt: NoFile, or one record per string written
    ncalls,          \* number of bedrock_client.converse calls made so far
    log,             \* history: the calls and the sort of the current round, in order
    submitted,       \* history: texts passed so far to get_feedback / grade_response
    console,         \* messages printed with print()
    grading_raw,     \* text of grading_response before .strip()
    g_ret,           \* what grade_response returned or raised
    html_pc,         \* position of generate_html
    response,        \* generate_html: local variable response
    summary          \* generate_html: local variable summary

gradeVars == <<grading_raw, grading_text, g_ret>>
loopVars == <<num_iterations, call_seconds, iteration, i, responses, feedback,
              best_response, refined_text, ncalls, log, submitted>>
htmlVars == <<html_pc, response, summary>>
vars == <<pc, loopVars, gradeVars, file, console, htmlVars>>

(***************************************************************************)
(* Python values                                                           *)
(***************************************************************************)
None == [t |-> "None"]
Absent == [t |-> "absent"]
PyInt(n) == [t |-> "int", v |-> n]
PyStr(s) == [t |-> "str", v |-> s]
Raised(e) == [t |-> "raise", v |-> e]

(***************************************************************************)
(* Character classes of Python's re module for a str pattern (Unicode      *)
(* matching) and of str.strip(), for the characters U+0000 to U+00FF.      *)
(***************************************************************************)
\* \d: the only decimal digits up to U+00FF
Digit == {"0", "1", "2", "3", "4", "5", "6", "7", "8", "9"}
Letter == {"a", "b", "c", "d", "e", "f", "g", "h", "i", "j", "k", "l", "m",
           "n", "o", "p", "q", "r", "s", "t", "u", "v", "w", "x", "y", "z",
           "A", "B", "C", "D", "E", "F", "G", "H", "I", "J", "K", "L", "M",
           "N", "O", "P", "Q", "R", "S", "T", "U", "V", "W", "X", "Y", "Z"}
\* the alphanumeric characters of U+0080 to U+00FF
LatinWordChar ==
    {"ª", "²", "³", "µ", "¹", "º", "¼", "½", "¾", "À", "Á", "Â", "Ã", "Ä",
    "Å", "Æ", "Ç", "È", "É", "Ê", "Ë", "Ì", "Í", "Î", "Ï", "Ð", "Ñ", "Ò",
    "Ó", "Ô", "Õ", "Ö", "Ø", "Ù", "Ú", "Û", "Ü", "Ý", "Þ", "ß", "à", "á",
    "â", "ã", "ä", "å", "æ", "ç", "è", "é", "ê", "ë", "ì", "í", "î", "ï",
    "ð", "ñ", "ò", "ó", "ô", "õ", "ö", "ø", "ù", "ú", "û", "ü", "ý", "þ",
    "ÿ"}
\* \w
WordChar == Digit \cup Letter \cup LatinWordChar \cup {"_"}
\* \s and str.isspace(): space, \t, \n, \r, \f, then U+000B, U+001C to
\* U+001F, U+0085 and U+00A0 written as the characters themselves
Whitespace ==
    {" ", "\t", "\n", "\r", "\f",
     "", "", "", "", "", "", " "}

DigitValue(c) ==
    CASE c = "0" -> 0 [] c = "1" -> 1 [] c = "2" -> 2 [] c = "3" -> 3
      [] c = "4" -> 4 [] c = "5" -> 5 [] c = "6" -> 6 [] c = "7" -> 7
      [] c = "8" -> 8 [] c = "9" -> 9

\* s[from..] starts with the literal lit
StartsWithAt(s, from, lit) ==
    /\ from + Len(lit) - 1 <= Len(s)
    /\ \A k \in 1..Len(lit) : s[from + k - 1] = lit[k]

(***************************************************************************)
(* grade_response: re.search(r'(\b-?\d{1,3}\b)(?=\s*out\s*of\s*100)', t)   *)
(* Positions are 1-based; position p is the gap before character p.        *)
(***************************************************************************)
IsWordAt(t, p) == p >= 1 /\ p <= Len(t) /\ t[p] \in WordChar

\* \b at the gap before character p
WordBoundary(t, p) == IsWordAt(t, p - 1) # IsWordAt(t, p)

\* \s* : the first position >= p that does not hold a whitespace character
RECURSIVE SkipSpaces(_, _)
SkipSpaces(t, p) ==
    IF p <= Len(t) /\ t[p] \in Whitespace THEN SkipSpaces(t, p + 1) ELSE p

\* (?=\s*out\s*of\s*100) at the gap before character p
LookaheadOutOf100(t, p) ==
    LET p1 == SkipSpaces(t, p)
        p2 == SkipSpaces(t, p1 + 3)
        p3 == SkipSpaces(t, p2 + 2)
    IN  /\ StartsWithAt(t, p1, <<"o", "u", "t">>)
        /\ StartsWithAt(t, p2, <<"o", "f">>)
        /\ StartsWithAt(t, p3, <<"1", "0", "0">>)

\* \b-?\d{1,3}\b followed by the lookahead, starting at s, with sgn
\* characters of "-" (0 or 1) and d digits
MatchesAtWith(t, s, sgn, d) ==
    /\ WordBoundary(t, s)
    /\ sgn = 1 => (s <= Len(t) /\ t[s] = "-")
    /\ s + sgn + d - 1 <= Len(t)
    /\ \A k \in 0..(d - 1) : t[s + sgn + k] \in Digit
    /\ WordBoundary(t, s + sgn + d)
    /\ LookaheadOutOf100(t, s + sgn + d)

MatchesAt(t, s) == \E sgn \in {0, 1}, d \in 1..3 : MatchesAtWith(t, s, sgn, d)

\* int(match.group(0)) for the match that starts at s
RECURSIVE DigitsValue(_, _, _)
DigitsValue(t, from, d) ==
    IF d = 0 THEN 0
    ELSE 10 * DigitsValue(t, from, d - 1) + DigitValue(t[from + d - 1])

MatchValue(t, s) ==
    LET sgn == IF \E d \in 1..3 : MatchesAtWith(t, s, 1, d) THEN 1 ELSE 0
        d == CHOOSE n \in 1..3 : MatchesAtWith(t, s, sgn, n)
    IN  IF sgn = 1 THEN 0 - DigitsValue(t, s + 1, d) ELSE DigitsValue(t, s, d)

\* re.search: the leftmost start position that matches, 0 when there is none
SearchGrade(t) ==
    IF \E s \in 1..Len(t) : MatchesAt(t, s)
    THEN CHOOSE s \in 1..Len(t) :
            MatchesAt(t, s) /\ \A s2 \in 1..(s - 1) : ~MatchesAt(t, s2)
    ELSE 0

\* variant: a grade of 0 is assigned when nothing matches
ExtractGrade_fallback(t) ==
    LET s == SearchGrade(t)
    IN  IF s > 0 THEN PyInt(MatchValue(t, s)) ELSE PyInt(0)

\* lines 69-73: return int(match.group(0)) or raise ValueError
ExtractGrade(t) ==
    LET s == SearchGrade(t)
    IN  IF s > 0 THEN PyInt(MatchValue(t, s)) ELSE Raised("ValueError")

(***************************************************************************)
(* String helpers: str.strip(), str.split(sep), str(int), f"{x:.2f}"       *)
(***************************************************************************)
\* str.strip(): drop leading and trailing whitespace
RECURSIVE SkipSpacesBack(_, _)
SkipSpacesBack(s, p) ==
    IF p >= 1 /\ s[p] \in Whitespace THEN SkipSpacesBack(s, p - 1) ELSE p

Strip(s) == SubSeq(s, SkipSpaces(s, 1), SkipSpacesBack(s, Len(s)))

\* str.find(sep, from): the first position >= from where sep occurs, 0 if none
Find(s, sep, from) ==
    IF \E p \in from..Len(s) : StartsWithAt(s, p, sep)
    THEN CHOOSE p \in from..Len(s) :
            /\ StartsWithAt(s, p, sep)
            /\ \A q \in from..(p - 1) : ~StartsWithAt(s, q, sep)
    ELSE 0

\* str.split(sep): cut at every non-overlapping occurrence of sep, scanning
\* from the left; from is where the current part begins
RECURSIVE SplitFrom(_, _, _)
SplitFrom(s, sep, from) ==
    LET p == Find(s, sep, from)
    IN  IF p = 0 THEN <<SubSeq(s, from, Len(s))>>
        ELSE <<SubSeq(s, from, p - 1)>> \o SplitFrom(s, sep, p + Len(sep))

Split(s, sep) == SplitFrom(s, sep, 1)

DigitChar(d) ==
    CASE d = 0 -> "0" [] d = 1 -> "1" [] d = 2 -> "2" [] d = 3 -> "3"
      [] d = 4 -> "4" [] d = 5 -> "5" [] d = 6 -> "6" [] d = 7 -> "7"
      [] d = 8 -> "8" [] d = 9 -> "9"

RECURSIVE NatToChars(_)
NatToChars(n) ==
    IF n < 10 THEN <<DigitChar(n)>>
    ELSE NatToChars(n \div 10) \o <<DigitChar(n % 10)>>

\* str(n) for an int n
IntToChars(n) == IF n < 0 THEN <<"-">> \o NatToChars(0 - n) ELSE NatToChars(n)

\* f"{x:.2f}" for a whole number of seconds x >= 0
Format2f(n) == NatToChars(n) \o <<".", "0", "0">>

RECURSIVE Concat(_)
Concat(ss) == IF ss = <<>> THEN <<>> ELSE Head(ss) \o Concat(Tail(ss))

(***************************************************************************)
(* Literals of the two scripts                                             *)
(***************************************************************************)
Marker ==
    <<"S", "U", "M", "M", "A", "R", "Y", " ", "O", "F", " ", "P", "R", "O",
      "C", "E", "S", "S">>
Separator == [k \in 1..40 |-> "="] \o <<"\n">>
TxtTotalPre ==
    <<"T", "o", "t", "a", "l", " ", "t", "i", "m", "e", " ", "t", "a", "k",
      "e", "n", " ", "f", "o", "r", " ", "t", "h", "e", " ", "p", "r", "o",
      "c", "e", "s", "s", ":", " ">>
TxtSeconds == <<" ", "s", "e", "c", "o", "n", "d", "s", "\n">>
TxtHeaderPre == <<"\n", "R", "e", "s", "p", "o", "n", "s", "e", " ">>
TxtHeaderPost == <<":", "\n">>
TxtResponsePre == <<"R", "e", "s", "p", "o", "n", "s", "e", ":", " ">>
TxtFeedbackPre == <<"F", "e", "e", "d", "b", "a", "c", "k", ":", " ">>
TxtGradePre == <<"G", "r", "a", "d", "e", ":", " ">>
TxtGenTimePre ==
    <<"R", "e", "s", "p", "o", "n", "s", "e", " ", "g", "e", "n", "e", "r",
      "a", "t", "i", "o", "n", " ", "t", "i", "m", "e", ":", " ">>
TxtFbTimePre ==
    <<"F", "e", "e", "d", "b", "a", "c", "k", " ", "g", "e", "n", "e", "r",
      "a", "t", "i", "o", "n", " ", "t", "i", "m", "e", ":", " ">>
TxtGradeTimePre ==
    <<"G", "r", "a", "d", "i", "n", "g", " ", "t", "i", "m", "e", ":", " ">>
TxtBestPre ==
    <<"B", "e", "s", "t", " ", "r", "e", "s", "p", "o", "n", "s", "e", ":",
      " ">>
TxtBestMid == <<" ", "(", "G", "r", "a", "d", "e", ":", " ">>
TxtBestPost == <<")", "\n">>
TxtNone == <<"N", "o", "n", "e">>

TxtClientError ==
    <<"A", " ", "c", "l", "i", "e", "n", "t", " ", "e", "r", "r", "o", "r",
      " ", "o", "c", "c", "u", "r", "r", "e", "d", ":", " ">>
\* line 163: f"A client error occurred: {err.response['Error']['Message']}"
MsgClientError(message) == TxtClientError \o message
MsgNotFound ==
    <<"E", "r", "r", "o", "r", ":", " ", "r", "e", "s", "p", "o", "n", "s",
      "e", ".", "t", "x", "t", " ", "f", "i", "l", "e", " ", "n", "o", "t",
      " ", "f", "o", "u", "n", "d", ".">>
MsgUnreadable ==
    <<"E", "r", "r", "o", "r", ":", " ", "U", "n", "a", "b", "l", "e", " ",
      "t", "o", " ", "r", "e", "a", "d", " ", "r", "e", "s", "p", "o", "n",
      "s", "e", ".", "t", "x", "t", " ", "f", "i", "l", "e", ".">>
MsgGenerated ==
    <<"H", "T", "M", "L", " ", "f", "i", "l", "e", " ", "'", "r", "e", "s",
      "p", "o", "n", "s", "e", ".", "h", "t", "m", "l", "'", " ", "h", "a",
      "s", " ", "b", "e", "e", "n", " ", "g", "e", "n", "e", "r", "a", "t",
      "e", "d", " ", "s", "u", "c", "c", "e", "s", "s", "f", "u", "l", "l",
      "y", ".">>
MsgUnwritable ==
    <<"E", "r", "r", "o", "r", ":", " ", "U", "n", "a", "b", "l", "e", " ",
      "t", "o", " ", "w", "r", "i", "t", "e", " ", "t", "o", " ", "r", "e",
      "s", "p", "o", "n", "s", "e", ".", "h", "t", "m", "l", " ", "f", "i",
      "l", "e", ".">>

(***************************************************************************)
(* Inputs of the model: what the external model may answer                 *)
(***************************************************************************)
\* prose answers to the generation prompt
SeedTexts == {<<"a">>}
\* prose answers to the refinement prompt
RefineTexts == {<<"a">>, <<"b">>}
\* prose answers to the feedback prompt
FeedbackTexts == {<<"f">>}
\* err.response['Error']['Message'] of a ClientError
ErrorMessages == {<<"b", "o", "o", "m">>}
\* seconds one converse call may take
CallSeconds == {0, 1}

G90 == <<"9", "0", " ", "o", "u", "t", " ", "o", "f", " ", "1", "0", "0">>
GNeg5 == <<"-", "5", " ", "o", "u", "t", " ", "o", "f", " ", "1", "0", "0">>
G20 ==
    <<" ", "G", "r", "a", "d", "e", ":", " ", "2", "0", " ", "o", "u", "t",
      " ", "o", "f", " ", "1", "0", "0", ".", "\n">>
GNo == <<"g", "o", "o", "d">>
\* answers to the grading prompt
GradingTexts == {G90, GNeg5, G20, GNo}

\* largest num_iterations explored
MaxIter == 2

NoFile == <<[w |-> "no file"]>>
NumSeeds == 3

(***************************************************************************)
(* main: candidates, the clock, the sort                                   *)
(***************************************************************************)
\* time.time() after n converse calls, in whole seconds since line 95: the
\* clock advances by call_seconds with every converse call (0 when the
\* model answers at once) and stands still otherwise
Now(n) == n * call_seconds

\* line 108; graded is a history field: the text that was passed to
\* grade_response when the grade field was last assigned
NewCandidate(text, elapsed) ==
    [response |-> text, feedback |-> None, grade |-> None,
     time_taken |-> PyInt(elapsed), feedback_time_taken |-> Absent,
     grade_time_taken |-> Absent, graded |-> None]

\* key=lambda x: x['grade']
SortKey(x) == x.grade.v

\* variant: x goes in front of the elements whose key equals its own
InsertDesc_unstable(sorted, x) ==
    LET behind == {k \in 1..Len(sorted) : SortKey(sorted[k]) > SortKey(x)}
        n == Cardinality(behind)
    IN  SubSeq(sorted, 1, n) \o <<x>> \o SubSeq(sorted, n + 1, Len(sorted))

\* one insertion of the stable descending sort: x goes behind every element
\* whose key is greater than or equal to its own
InsertDesc(sorted, x) ==
    LET behind == {k \in 1..Len(sorted) : SortKey(sorted[k]) >= SortKey(x)}
        n == Cardinality(behind)
    IN  SubSeq(sorted, 1, n) \o <<x>> \o SubSeq(sorted, n + 1, Len(sorted))

\* variant: the list is left in the order in which it was graded
SortedByGradeDesc_unsorted(rs) == rs

\* sorted(responses, key=lambda x: x['grade'], reverse=True)
RECURSIVE SortedByGradeDesc(_)
SortedByGradeDesc(rs) ==
    IF rs = <<>> THEN <<>>
    ELSE InsertDesc(SortedByGradeDesc(SubSeq(rs, 1, Len(rs) - 1)), rs[Len(rs)])

(***************************************************************************)
(* main: the summary written to response.txt (lines 146-159).  One record  *)
(* per file.write call; Render gives the string the call writes.           *)
(***************************************************************************)
W(kind, val) == [w |-> kind, val |-> val]

\* f"{x}" for a str, an int or None
FormatValue(x) ==
    CASE x.t = "str" -> x.v
      [] x.t = "int" -> IntToChars(x.v)
      [] x.t = "None" -> TxtNone

Render(rec) ==
    CASE rec.w = "marker" -> <<"\n">> \o Marker \o <<"\n">>
      [] rec.w = "separator" -> Separator
      [] rec.w = "total" -> TxtTotalPre \o Format2f(rec.val.v) \o TxtSeconds
      [] rec.w = "header" -> TxtHeaderPre \o IntToChars(rec.val.v) \o TxtHeaderPost
      [] rec.w = "response" -> TxtResponsePre \o FormatValue(rec.val) \o <<"\n">>
      [] rec.w = "feedback" -> TxtFeedbackPre \o FormatValue(rec.val) \o <<"\n">>
      [] rec.w = "grade" -> TxtGradePre \o FormatValue(rec.val) \o <<"\n">>
      [] rec.w = "time_taken" -> TxtGenTimePre \o Format2f(rec.val.v) \o TxtSeconds
      [] rec.w = "feedback_time_taken" ->
            TxtFbTimePre \o Format2f(rec.val.v) \o TxtSeconds
      [] rec.w = "grade_time_taken" ->
            TxtGradeTimePre \o Format2f(rec.val.v) \o TxtSeconds
      [] rec.w = "best" ->
            TxtBestPre \o FormatValue(rec.val[1]) \o TxtBestMid
                \o FormatValue(rec.val[2]) \o TxtBestPost
      [] rec.w = "raw" -> rec.val

\* the characters main has written to response.txt, in order
Written(f) == Concat([k \in 1..Len(f) |-> Render(f[k])])

\* universal newlines of a file opened with mode 'r': "\r\n" and a lone
\* "\r" are read as "\n"
TranslateNewlines(s) ==
    LET Dropped == ""
        Translated ==
            [p \in 1..Len(s) |->
                IF s[p] = "\r" THEN "\n"
                ELSE IF s[p] = "\n" /\ p > 1 /\ s[p - 1] = "\r" THEN Dropped
                ELSE s[p]]
        Kept(c) == c # Dropped
    IN  SelectSeq(Translated, Kept)

\* htmlize.py lines 6-7: what file.read() returns
FileContent(f) == TranslateNewlines(Written(f))

\* a record of kind "bytes" stands for bytes that are not text in the
\* encoding open() decodes with; main writes str values only
IsText(f) == \A k \in 1..Len(f) : f[k].w # "bytes"

\* lines 151-157 for candidate number k (1-based) holding r: the writes of
\* the block, cut short where r[key] raises KeyError
BlockWrites(k, r) ==
    LET head == <<W("header", PyInt(k)), W("response", PyStr(r.response)),
                  W("feedback", r.feedback), W("grade", r.grade),
                  W("time_taken", r.time_taken)>>
    IN  IF r.feedback_time_taken = Absent THEN head
        ELSE IF r.grade_time_taken = Absent
             THEN head \o <<W("feedback_time_taken", r.feedback_time_taken)>>
             ELSE head \o <<W("feedback_time_taken", r.feedback_time_taken),
                            W("grade_time_taken", r.grade_time_taken)>>

HasTimings(r) == r.feedback_time_taken # Absent /\ r.grade_time_taken # Absent

\* lines 147-149
SummaryHead(total) == <<W("marker", None), W("separator", None),
                        W("total", PyInt(total))>>

\* lines 150-157: the blocks of candidates k..Len(rs), stopping at the first
\* KeyError
RECURSIVE BlocksFrom(_, _)
BlocksFrom(rs, k) ==
    IF k > Len(rs) THEN <<>>
    ELSE IF HasTimings(rs[k]) THEN BlockWrites(k, rs[k]) \o BlocksFrom(rs, k + 1)
         ELSE BlockWrites(k, rs[k])

\* lines 158-159
SummaryTail(rs) == <<W("separator", None),
                     W("best", <<PyStr(rs[1].response), rs[1].grade>>)>>

(***************************************************************************)
(* main (lines 75-163)                                                     *)
(***************************************************************************)
CallSites == {"seed", "feedback", "grade", "refine"}
Terminated == {"done", "client_error", "value_error", "key_error"}

Init ==
    /\ pc = "start"
    /\ num_iterations \in 0..MaxIter
    /\ call_seconds \in CallSeconds
    /\ iteration = 0
    /\ i = 0
    /\ responses = <<>>
    /\ feedback = None
    /\ grading_raw = None
    /\ grading_text = None
    /\ g_ret = None
    /\ best_response = None
    /\ refined_text = None
    /\ file = NoFile
    /\ ncalls = 0
    /\ log = <<>>
    /\ submitted = {}
    /\ console = <<>>
    /\ html_pc = "idle"
    /\ response = None
    /\ summary = None

\* lines 92-102: open('response.txt', 'w') creates or empties the file
Start ==
    /\ pc = "start"
    /\ file' = <<>>
    /\ pc' = "seed"
    /\ i' = 1
    /\ UNCHANGED <<num_iterations, call_seconds, iteration, responses, feedback, best_response,
                   refined_text, ncalls, log, submitted, gradeVars, console,
                   htmlVars>>

\* variant: a round starts with the grade call of the first candidate
EnterRound_grade(next) ==
    IF next <= num_iterations
    THEN /\ pc' = "grade"
         /\ iteration' = next
         /\ i' = 1
    ELSE /\ pc' = "write"
         /\ UNCHANGED <<iteration, i>>

\* line 111: entering round number next, or leaving the loop
EnterRound(next) ==
    IF next <= num_iterations
    THEN /\ pc' = "feedback"
         /\ iteration' = next
         /\ i' = 1
    ELSE /\ pc' = "write"
         /\ UNCHANGED <<iteration, i>>

\* lines 103-108: one seed generation
Seed ==
    /\ pc = "seed"
    /\ \E text \in SeedTexts :
        /\ ncalls' = ncalls + 1
        /\ responses' = Append(responses,
                               NewCandidate(text, Now(ncalls') - Now(ncalls)))
    /\ IF i < NumSeeds
       THEN /\ i' = i + 1
            /\ UNCHANGED <<pc, iteration>>
       ELSE EnterRound(1)
    /\ UNCHANGED <<num_iterations, call_seconds, feedback, best_response, refined_text, log,
                   submitted, gradeVars, file, console, htmlVars>>

\* lines 114-119: get_feedback for candidate i
Feedback ==
    /\ pc = "feedback"
    /\ \E text \in FeedbackTexts :
        /\ ncalls' = ncalls + 1
        /\ feedback' = PyStr(text)
        /\ responses' = [responses EXCEPT
                            ![i].feedback = PyStr(text),
                            ![i].feedback_time_taken =
                                PyInt(Now(ncalls') - Now(ncalls))]
    /\ log' = (IF i = 1 THEN <<>> ELSE log) \o <<[op |-> "feedback", idx |-> i]>>
    /\ submitted' = submitted \cup {responses[i].response}
    /\ pc' = "grade"
    /\ UNCHANGED <<num_iterations, call_seconds, iteration, i, best_response, refined_text,
                   gradeVars, file, console, htmlVars>>

\* lines 58-73: what grade_response does with the model's answer raw
GradeResponse(raw) == ExtractGrade(Strip(raw))

\* lines 121-126: grade_response for candidate i returns a grade
Grade ==
    /\ pc = "grade"
    /\ \E raw \in GradingTexts :
        /\ GradeResponse(raw).t = "int"
        /\ grading_raw' = PyStr(raw)
        /\ grading_text' = PyStr(Strip(raw))
        /\ g_ret' = GradeResponse(raw)
        /\ responses' = [responses EXCEPT
                            ![i].grade = GradeResponse(raw),
                            ![i].grade_time_taken =
                                PyInt(Now(ncalls + 1) - Now(ncalls)),
                            ![i].graded = PyStr(responses[i].response)]
    /\ ncalls' = ncalls + 1
    /\ log' = Append(log, [op |-> "grade", idx |-> i])
    /\ submitted' = submitted \cup {responses[i].response}
    /\ IF i < Len(responses)
       THEN /\ i' = i + 1
            /\ pc' = "feedback"
       ELSE /\ pc' = "sort"
            /\ UNCHANGED i
    /\ UNCHANGED <<num_iterations, call_seconds, iteration, feedback, best_response,
                   refined_text, file, console, htmlVars>>

\* lines 69-73, 123: grade_response raises ValueError, which main does not
\* catch; the with block closes the file
GradeRaises ==
    /\ pc = "grade"
    /\ \E raw \in GradingTexts :
        /\ GradeResponse(raw).t = "raise"
        /\ grading_raw' = PyStr(raw)
        /\ grading_text' = PyStr(Strip(raw))
        /\ g_ret' = GradeResponse(raw)
    /\ ncalls' = ncalls + 1
    /\ log' = Append(log, [op |-> "grade", idx |-> i])
    /\ submitted' = submitted \cup {responses[i].response}
    /\ pc' = "value_error"
    /\ UNCHANGED <<num_iterations, call_seconds, iteration, i, responses, feedback,
                   best_response, refined_text, file, console, htmlVars>>

\* lines 128-138: the sort, and the text picked for refinement
SortStep ==
    /\ pc = "sort"
    /\ responses' = SortedByGradeDesc(responses)
    /\ best_response' = PyStr(responses'[1].response)
    /\ log' = Append(log, [op |-> "sort", idx |-> 0])
    /\ pc' = "refine"
    /\ UNCHANGED <<num_iterations, call_seconds, iteration, i, feedback, refined_text, ncalls,
                   submitted, gradeVars, file, console, htmlVars>>

\* variant: the refinement also clears the stale feedback and grade
RefineAssign_clears(rs, text) ==
    [rs EXCEPT ![1].response = text, ![1].feedback = None, ![1].grade = None]

\* variant: the refined text is stored in the last candidate
RefineAssign_last(rs, text) == [rs EXCEPT ![Len(rs)].response = text]

\* line 141: responses[0]['response'] = refined_text
RefineAssign(rs, text) == [rs EXCEPT ![1].response = text]

\* lines 139-141: the refine call and the assignment of its answer
Refine ==
    /\ pc = "refine"
    /\ \E text \in RefineTexts :
        /\ refined_text' = PyStr(text)
        /\ responses' = RefineAssign(responses, text)
    /\ ncalls' = ncalls + 1
    /\ log' = Append(log, [op |-> "refine", idx |-> 1])
    /\ EnterRound(iteration + 1)
    /\ UNCHANGED <<num_iterations, call_seconds, feedback, best_response, submitted,
                   gradeVars, file, console, htmlVars>>

\* variant: the handler reports the error and main goes on at the same call
ExceptClientError_retry(message) ==
    /\ pc' = pc
    /\ console' = Append(console, MsgClientError(message))

\* lines 161-163: the handler of ClientError
ExceptClientError(message) ==
    /\ pc' = "client_error"
    /\ console' = Append(console, MsgClientError(message))

\* bedrock_client.converse raises ClientError at any of the call sites: the
\* call was made (it is counted and recorded like one that answers) and
\* nothing is assigned
ConverseFails ==
    /\ pc \in CallSites
    /\ ncalls' = ncalls + 1
    /\ log' = CASE pc = "seed" -> log
               [] pc = "feedback" ->
                    (IF i = 1 THEN <<>> ELSE log)
                        \o <<[op |-> "feedback", idx |-> i]>>
               [] pc = "grade" -> Append(log, [op |-> "grade", idx |-> i])
               [] pc = "refine" -> Append(log, [op |-> "refine", idx |-> 1])
    /\ submitted' = IF pc \in {"feedback", "grade"}
                    THEN submitted \cup {responses[i].response}
                    ELSE submitted
    /\ \E message \in ErrorMessages : ExceptClientError(message)
    /\ UNCHANGED <<num_iterations, call_seconds, iteration, i, responses,
                   feedback, best_response, refined_text, gradeVars, file,
                   htmlVars>>

\* line 144, with start_time = Now(0): no call precedes line 95
TotalTimeTaken == Now(ncalls) - Now(0)

\* lines 146-159 when every candidate has its timing keys; the loop of
\* line 150 rebinds i and leaves it at the last candidate
WriteSummary ==
    /\ pc = "write"
    /\ \A k \in 1..Len(responses) : HasTimings(responses[k])
    /\ file' = file \o SummaryHead(TotalTimeTaken) \o BlocksFrom(responses, 1)
                    \o SummaryTail(responses)
    /\ i' = Len(responses)
    /\ pc' = "done"
    /\ UNCHANGED <<num_iterations, call_seconds, iteration, responses,
                   feedback, best_response, refined_text, ncalls, log,
                   submitted, gradeVars, console, htmlVars>>

\* lines 146-157 when a candidate lacks a timing key: KeyError, not caught;
\* the loop of line 150 rebinds i, which stays at the block that raised
WriteSummaryKeyError ==
    /\ pc = "write"
    /\ \E k \in 1..Len(responses) : ~HasTimings(responses[k])
    /\ file' = file \o SummaryHead(TotalTimeTaken) \o BlocksFrom(responses, 1)
    /\ i' = CHOOSE k \in 1..Len(responses) :
                /\ ~HasTimings(responses[k])
                /\ \A j \in 1..(k - 1) : HasTimings(responses[j])
    /\ pc' = "key_error"
    /\ UNCHANGED <<num_iterations, call_seconds, iteration, responses,
                   feedback, best_response, refined_text, ncalls, log,
                   submitted, gradeVars, console, htmlVars>>

(***************************************************************************)
(* htmlize.py: generate_html (lines 3-62).  The script is a process of its *)
(* own: it runs once, at any moment before, during or after main.  The     *)
(* HTML template around the two parts is not modelled.                     *)
(***************************************************************************)
\* lines 16-18
SplitTranscript(content) ==
    LET parts == Split(content, Marker)
    IN  [response |-> Strip(parts[1]),
         summary |-> IF Len(parts) > 1 THEN Strip(parts[2]) ELSE <<>>]

\* lines 6-7, 16-18, 57-60: response.txt is read and response.html written
generate_html ==
    /\ html_pc = "idle"
    /\ file # NoFile
    /\ IsText(file)
    /\ LET st == SplitTranscript(FileContent(file))
       IN  /\ response' = PyStr(st.response)
           /\ summary' = PyStr(st.summary)
    /\ console' = Append(console, MsgGenerated)
    /\ html_pc' = "done"
    /\ UNCHANGED <<pc, loopVars, gradeVars, file>>

\* lines 8-10
generate_html_not_found ==
    /\ html_pc = "idle"
    /\ file = NoFile
    /\ console' = Append(console, MsgNotFound)
    /\ html_pc' = "returned"
    /\ UNCHANGED <<pc, loopVars, gradeVars, file, response, summary>>

\* lines 11-13: response.txt exists and open() or read() raises IOError
generate_html_unreadable ==
    /\ html_pc = "idle"
    /\ file # NoFile
    /\ console' = Append(console, MsgUnreadable)
    /\ html_pc' = "returned"
    /\ UNCHANGED <<pc, loopVars, gradeVars, file, response, summary>>

\* lines 6-7, 16-18, 61-62: writing response.html raises IOError
generate_html_unwritable ==
    /\ html_pc = "idle"
    /\ file # NoFile
    /\ IsText(file)
    /\ LET st == SplitTranscript(FileContent(file))
       IN  /\ response' = PyStr(st.response)
           /\ summary' = PyStr(st.summary)
    /\ console' = Append(console, MsgUnwritable)
    /\ html_pc' = "write_failed"
    /\ UNCHANGED <<pc, loopVars, gradeVars, file>>

\* line 7: file.read() raises UnicodeDecodeError, which is no IOError and
\* leaves generate_html uncaught
generate_html_decode_error ==
    /\ html_pc = "idle"
    /\ file # NoFile
    /\ ~IsText(file)
    /\ html_pc' = "unicode_error"
    /\ UNCHANGED <<pc, loopVars, gradeVars, file, console, response, summary>>

\* lines 39 and 43: the replacement fields of the f-string hold backslashes,
\* which an interpreter older than Python 3.12 rejects when it compiles the
\* script: SyntaxError, and no line of htmlize.py runs
htmlize_syntax_error ==
    /\ html_pc = "idle"
    /\ html_pc' = "syntax_error"
    /\ UNCHANGED <<pc, loopVars, gradeVars, file, console, response, summary>>

Next ==
    \/ Start
    \/ Seed
    \/ Feedback
    \/ Grade
    \/ GradeRaises
    \/ SortStep
    \/ Refine
    \/ ConverseFails
    \/ WriteSummary
    \/ WriteSummaryKeyError
    \/ generate_html
    \/ generate_html_not_found
    \/ generate_html_unreadable
    \/ generate_html_unwritable
    \/ htmlize_syntax_error

Spec == Init /\ [][Next]_vars

(***************************************************************************)
(* grade_response on its own: the grading text is the input                *)
(***************************************************************************)
GradeAlphabet == {"x", "é", " ", "-", "5", "1"}
\* longest text put in front of the " out of ..." endings
MaxLen == 3
GradePrefixes == UNION {[1..n -> GradeAlphabet] : n \in 0..MaxLen}

SufOutOf100 == <<" ", "o", "u", "t", " ", "o", "f", " ", "1", "0", "0">>
SufOutOf10 == <<" ", "o", "u", "t", " ", "o", "f", " ", "1", "0">>
SufTwice == SufOutOf100 \o <<",", " ", "7">> \o SufOutOf100
GradeSuffixes == {<<>>, SufOutOf100, SufOutOf10, SufTwice}

NotMain ==
    /\ num_iterations = 0
    /\ call_seconds = 0
    /\ iteration = 0
    /\ i = 0
    /\ responses = <<>>
    /\ feedback = None
    /\ best_response = None
    /\ refined_text = None
    /\ ncalls = 0
    /\ log = <<>>
    /\ submitted = {}
    /\ console = <<>>

InitGrade ==
    /\ pc = "grade_response"
    /\ \E pre \in GradePrefixes, suf \in GradeSuffixes :
            grading_raw = PyStr(pre \o suf)
    /\ grading_text = None
    /\ g_ret = None
    /\ NotMain
    /\ file = NoFile
    /\ html_pc = "idle"
    /\ response = None
    /\ summary = None

\* lines 65-73
grade_response ==
    /\ pc = "grade_response"
    /\ grading_text' = PyStr(Strip(grading_raw.v))
    /\ g_ret' = GradeResponse(grading_raw.v)
    /\ pc' = IF g_ret'.t = "int" THEN "returned" ELSE "raised"
    /\ UNCHANGED <<grading_raw, loopVars, file, console, htmlVars>>

NextGrade == grade_response

SpecGrade == InitGrade /\ [][NextGrade]_vars

(***************************************************************************)
(* generate_html on its own: the content of response.txt is the input      *)
(***************************************************************************)
Chunks == {<<"A">>, <<" ">>, <<"\n">>, <<"\r">>, Marker, <<"S", "U", "M">>}
\* largest number of chunks a transcript is put together from
MaxChunks == 4

\* what response.txt is put together from
FileRecords == {W("raw", c) : c \in Chunks} \cup {W("bytes", <<>>)}

InitHtml ==
    /\ pc = "transcript"
    /\ \/ file = NoFile
       \/ \E n \in 0..MaxChunks : file \in [1..n -> FileRecords]
    /\ NotMain
    /\ grading_raw = None
    /\ grading_text = None
    /\ g_ret = None
    /\ html_pc = "idle"
    /\ response = None
    /\ summary = None

NextHtml ==
    \/ generate_html
    \/ generate_html_not_found
    \/ generate_html_unreadable
    \/ generate_html_unwritable
    \/ generate_html_decode_error
    \/ htmlize_syntax_error

SpecHtml == InitHtml /\ [][NextHtml]_vars

(***************************************************************************)
(* Properties                                                              *)
(***************************************************************************)
\* the number token that ends right before position p: a run of d digits
\* (1 to 3, not preceded by a word character) followed by a word boundary
\* and by "out of 100"
IsGradeToken(t, p, d) ==
    /\ p - d >= 1
    /\ \A k \in (p - d)..(p - 1) : t[k] \in Digit
    /\ ~IsWordAt(t, p - d - 1)
    /\ WordBoundary(t, p)
    /\ LookaheadOutOf100(t, p)

GradeTokenEnds(t) ==
    {p \in 2..(Len(t) + 1) : \E d \in 1..3 : IsGradeToken(t, p, d)}

\* the integer the first token denotes, with the minus sign in front of it
FirstTokenValue(t) ==
    LET p == CHOOSE q \in GradeTokenEnds(t) : \A q2 \in GradeTokenEnds(t) : q <= q2
        d == CHOOSE n \in 1..3 : IsGradeToken(t, p, n)
        a == p - d
    IN  IF a >= 2 /\ t[a - 1] = "-"
        THEN 0 - DigitsValue(t, a, d)
        ELSE DigitsValue(t, a, d)

\* C1: for every grading text that contains "<int> out of 100" (1 to 3
\* digits, optional leading minus) grade_response returns exactly that
\* integer, sign included; for every other text it raises.
C1_GradeExtraction ==
    pc \in {"returned", "raised"} =>
        IF GradeTokenEnds(grading_text.v) # {}
        THEN g_ret = PyInt(FirstTokenValue(grading_text.v))
        ELSE g_ret.t = "raise"

WithGrade(rs, g) ==
    LET HasGrade(r) == r.grade.v = g
    IN  SelectSeq(rs, HasGrade)

StableDesc(before, after) ==
    LET n == Len(before)
        top == CHOOSE k \in 1..n :
                 /\ \A j \in 1..n : before[j].grade.v <= before[k].grade.v
                 /\ \A j \in 1..(k - 1) : before[j].grade.v < before[k].grade.v
    IN  /\ Len(after) = n
        /\ \A k \in 1..(n - 1) : after[k].grade.v >= after[k + 1].grade.v
        /\ \A g \in {before[k].grade.v : k \in 1..n} :
                WithGrade(after, g) = WithGrade(before, g)
        /\ after[1] = before[top]

\* C2: the sort of a round puts the candidates in descending order of grade
\* and is stable: candidates with equal grades keep their relative order,
\* and index 0 holds the earliest candidate among those with the maximum.
C2_StableSort ==
    [][(pc = "sort" /\ pc' = "refine") => StableDesc(responses, responses')]_vars

C2_Witness ==
    /\ pc = "refine"
    /\ responses[1].grade = responses[2].grade
    /\ responses[1].response # responses[2].response
    /\ responses[3].grade.v < responses[2].grade.v

StaleFields ==
    {"feedback", "grade", "time_taken", "feedback_time_taken",
     "grade_time_taken", "graded"}

\* C3: the refine step changes only the text of the candidate at index 0;
\* the other texts and every feedback, grade and timing field stay as they
\* are, also in the steps that follow until the next feedback/grade step.
C3_RefineFrame ==
    [][/\ pc \in {"refine", "write"} \cup Terminated =>
            /\ Len(responses') = Len(responses)
            /\ \A k \in 1..Len(responses) : \A f \in StaleFields :
                    responses'[k][f] = responses[k][f]
            /\ \A k \in 2..Len(responses) :
                    responses'[k].response = responses[k].response
       /\ (pc = "refine" /\ pc' \in {"feedback", "write"}) =>
            responses'[1].response = refined_text'.v]_vars

C3_Witness ==
    /\ pc = "feedback"
    /\ i = 1
    /\ iteration = 2
    /\ refined_text # best_response
    /\ responses[1].response = refined_text.v
    /\ responses[1].graded = best_response
    /\ responses[1].grade # None

IsClientErrorLine(line) ==
    /\ Len(line) >= Len(TxtClientError)
    /\ SubSeq(line, 1, Len(TxtClientError)) = TxtClientError

ClientErrorSeen(c) == \E k \in 1..Len(c) : IsClientErrorLine(c[k])

\* C4: when a model invocation reports a client error, the error is handled
\* once, main ends, no further invocation is made and nothing is written to
\* the output file.
C4_ClientErrorAborts ==
    [][ClientErrorSeen(console') =>
            /\ pc' = "client_error"
            /\ file' = <<>>
            /\ Cardinality({k \in 1..Len(console') :
                                IsClientErrorLine(console'[k])}) = 1
            /\ ClientErrorSeen(console) =>
                    UNCHANGED <<ncalls, log, submitted, responses>>]_vars

C4_Witness ==
    /\ pc = "client_error"
    /\ iteration = 2
    /\ log # <<>>
    /\ log[Len(log)].op = "feedback"
    /\ file = <<>>
    /\ html_pc = "done"
    /\ summary = PyStr(<<>>)

\* a grade call was made in this step and the model answered it
GradeCallMade ==
    /\ log' # log
    /\ log' # <<>>
    /\ log'[Len(log')].op = "grade"
    /\ ~ClientErrorSeen(console')

\* C5: when the grading answer holds no "<integer> out of 100", no grade is
\* assigned, the ValueError is not handled by main, no later step runs and
\* no transcript is written.
C5_ParseFailureAborts ==
    [][/\ (GradeCallMade /\ SearchGrade(grading_text'.v) = 0) =>
            /\ pc' = "value_error"
            /\ responses' = responses
            /\ file' = <<>>
            /\ ~ClientErrorSeen(console')
       /\ pc = "value_error" =>
            /\ UNCHANGED <<pc, responses, ncalls, log, file>>
            /\ ~ClientErrorSeen(console')]_vars

C5_Witness ==
    /\ pc = "value_error"
    /\ iteration = 2
    /\ i = 1
    /\ responses[1].grade # None
    /\ responses[1].graded # PyStr(responses[1].response)
    /\ file = <<>>

\* everything after the first occurrence of the marker, and before it
AfterFirstMarker(content) ==
    LET p == CHOOSE q \in 1..Len(content) :
                /\ StartsWithAt(content, q, Marker)
                /\ \A q2 \in 1..(q - 1) : ~StartsWithAt(content, q2, Marker)
    IN  [before |-> SubSeq(content, 1, p - 1),
         after |-> SubSeq(content, p + Len(Marker), Len(content))]

HasMarker(content) == \E q \in 1..Len(content) : StartsWithAt(content, q, Marker)

\* C6: generate_html splits on the first occurrence of the marker: the
\* response part is everything before it, trimmed, and the summary part is
\* everything after it, trimmed, also when the marker occurs more than
\* once; without a marker the response part is the whole trimmed content
\* and the summary part is empty.
C6_SplitOnFirstMarker ==
    html_pc \in {"done", "write_failed"} =>
        LET content == FileContent(file)
        IN  IF HasMarker(content)
            THEN /\ response = PyStr(Strip(AfterFirstMarker(content).before))
                 /\ summary = PyStr(Strip(AfterFirstMarker(content).after))
            ELSE /\ response = PyStr(Strip(content))
                 /\ summary = PyStr(<<>>)

Writes(f, kind) ==
    LET IsKind(rec) == rec.w = kind
    IN  SelectSeq(f, IsKind)

\* C7: in the transcript of a run that completes, the candidate blocks are
\* in the order left by the last sort, their printed grades are
\* non-increasing, and the "Best response" line restates the first block's
\* text with its grade, the maximum of the three printed grades.
C7_TranscriptOrder ==
    (pc = "done" /\ num_iterations >= 1) =>
        LET gs == Writes(file, "grade")
            ts == Writes(file, "response")
            fs == Writes(file, "feedback")
            n == Len(responses)
        IN  /\ Len(gs) = n /\ Len(ts) = n /\ Len(fs) = n
            /\ \A k \in 1..n :
                /\ gs[k].val = responses[k].grade
                /\ ts[k].val = PyStr(responses[k].response)
                /\ fs[k].val = responses[k].feedback
            /\ \A k \in 1..(n - 1) : gs[k].val.v >= gs[k + 1].val.v
            /\ file[Len(file)].w = "best"
            /\ file[Len(file)].val = <<ts[1].val, gs[1].val>>
            /\ \A k \in 1..n : gs[k].val.v <= gs[1].val.v

C7_Witness ==
    /\ pc = "done"
    /\ num_iterations = 2
    /\ responses[1].grade.v = 90
    /\ responses[2].grade.v = 20
    /\ responses[3].grade.v = 5
    /\ responses[1].response # responses[1].graded.v

\* generate_html has read the transcript of a run of main that completed
\* (before main writes, response.txt is absent or empty)
TranscriptRead ==
    /\ pc = "done"
    /\ html_pc = "done"
    /\ summary.v # <<>>

\* C8: the transcript of a successful run starts with the seed responses, so
\* the text before the marker is not empty and the response part extracted
\* by generate_html holds the seed response text.
C8_ResponsePartHasSeedText ==
    TranscriptRead =>
        /\ file[1].w # "marker"
        /\ response.v # <<>>

LogEntry(op, idx) == [op |-> op, idx |-> idx]

\* the calls of one round in the order of lines 113-141
RoundPattern ==
    [k \in 1..(2 * NumSeeds) |->
        IF k % 2 = 1 THEN LogEntry("feedback", (k + 1) \div 2)
        ELSE LogEntry("grade", k \div 2)]
    \o <<LogEntry("sort", 0), LogEntry("refine", 1)>>

\* C9 as stated: in each round all three feedback calls precede the first
\* grade call, and all grade calls precede the sort and the refine call.
C9_AllFeedbackBeforeGrade ==
    \A j \in 1..Len(log) : \A k \in (j + 1)..Len(log) :
        /\ ~(log[j].op = "grade" /\ log[k].op = "feedback")
        /\ ~(log[j].op \in {"sort", "refine"} /\ log[k].op \in {"feedback", "grade"})

\* C9 amended: in each round the feedback call and then the grade call are
\* made for one candidate after the other, in list order; all three
\* feedback calls and all three grade calls precede the sort, which
\* precedes the single refine call.
C9_RoundOrder ==
    /\ Len(log) <= Len(RoundPattern)
    /\ log = SubSeq(RoundPattern, 1, Len(log))
    /\ pc = "grade" => Len(log) = 2 * i - 1
    /\ (pc = "feedback" /\ i > 1) => Len(log) = 2 * (i - 1)
    /\ pc = "sort" => Len(log) = 2 * NumSeeds
    /\ pc = "refine" => Len(log) = 2 * NumSeeds + 1
    /\ (pc \in {"write", "done"} /\ num_iterations >= 1) => log = RoundPattern

C9_Witness ==
    /\ pc = "write"
    /\ iteration = 2
    /\ log = RoundPattern

\* a round has just ended
RoundEnded ==
    \/ pc \in {"write", "done"} /\ num_iterations >= 1
    \/ pc = "feedback" /\ i = 1 /\ iteration >= 2

GradeBelongsToPreRefinementText ==
    /\ responses[1].response = refined_text.v
    /\ responses[1].graded = best_response
    /\ \A k \in 2..Len(responses) :
            responses[k].graded = PyStr(responses[k].response)
    /\ pc = "done" =>
            /\ Writes(file, "response")[1].val = refined_text
            /\ Writes(file, "best")[1].val = <<refined_text, responses[1].grade>>

\* C10 as stated: at the end of a round the text of the candidate at index 0
\* is the output of the refine call and has never been passed to a feedback
\* or grade call; its grade was given to the pre-refinement text; the grades
\* of the other two were given to exactly their texts.
C10_BestTextNeverSubmitted ==
    RoundEnded =>
        /\ GradeBelongsToPreRefinementText
        /\ responses[1].response \notin submitted

\* C10 amended: at the end of a round the text of the candidate at index 0
\* is the output of the refine call, made after its feedback and grade were
\* computed; its grade was given to the pre-refinement text; the grades of
\* the other two were given to exactly their texts.  (The refine call may
\* answer with a text that was submitted before.)
C10_GradeGivenToPreRefinementText ==
    RoundEnded => GradeBelongsToPreRefinementText

C10_Witness ==
    /\ pc = "done"
    /\ num_iterations = 2
    /\ refined_text # best_response
    /\ responses[1].graded.v # responses[1].response
    /\ responses[1].response \notin submitted

====
